---- MODULE Spec2Model ----
(***************************************************************************)
(* Model of frontend/server/iam-role-proxy.ts: MinioClientManager (the     *)
(* credential lifecycle manager) and getMinioClientProxy (the forwarder).  *)
(*                                                                         *)
(* JavaScript promises are modelled as entries of the sequence `promises`; *)
(* a promise is identified by its index.  Strings that the code inspects   *)
(* character by character (the endpoint, lower-cased by init) are tuples   *)
(* of one-character strings.  A JavaScript number is a record: Num(n) for  *)
(* the integer n (timestamps are small integers), NaN for not-a-number.    *)
(***************************************************************************)
EXTENDS Integers, Sequences, FiniteSets, TLC

VARIABLES options, expiration, _client, iamRole, promises, ncalls, ops, now,
          roleReqs, credReqs

vars == <<options, expiration, _client, iamRole, promises, ncalls, ops, now,
          roleReqs, credReqs>>

(***************************************************************************)
(* Bounds of the model.                                                    *)
(***************************************************************************)
\* number of calls of client(), directly or by a forwarded operation
MaxCalls == 2
\* number of those calls that forwarded operations make
MaxForwarded == 1
\* the clock runs from 1 to MaxNow
MaxNow == 2

(***************************************************************************)
(* Strings and numbers of JavaScript.                                      *)
(***************************************************************************)
Num(n) == [nan |-> FALSE, n |-> n]

NaN == [nan |-> TRUE, n |-> 0]

\* a < b on JavaScript numbers: every comparison with NaN is false
Lt(a, b) == ~a.nan /\ ~b.nan /\ a.n < b.n

\* a > b on JavaScript numbers
Gt(a, b) == ~a.nan /\ ~b.nan /\ a.n > b.n

\* the upper-case letters that occur in the endpoints of the model
LowerOf == [c \in {"S", "A", "M", "Z", "O", "N", "W", "C"} |->
              CASE c = "S" -> "s" [] c = "A" -> "a" [] c = "M" -> "m"
                [] c = "Z" -> "z" [] c = "O" -> "o" [] c = "N" -> "n"
                [] c = "W" -> "w" [] c = "C" -> "c"]

\* String.prototype.toLowerCase, character by character
toLowerCase(s) ==
  [i \in 1..Len(s) |-> IF s[i] \in DOMAIN LowerOf THEN LowerOf[s[i]] ELSE s[i]]

\* "s3.amazonaws.com"
S3Global == <<"s","3",".","a","m","a","z","o","n","a","w","s",".","c","o","m">>

\* "s3.cn-north-1.amazonaws.com.cn"
S3China == <<"s","3",".","c","n","-","n","o","r","t","h","-","1",".",
             "a","m","a","z","o","n","a","w","s",".","c","o","m",".","c","n">>

\* "S3.AmazonAWS.com": the global endpoint in another spelling
S3GlobalMixed ==
  <<"S","3",".","A","m","a","z","o","n","A","W","S",".","c","o","m">>

\* "minio-service.kubeflow", the default of confFromEnv
MinioService == <<"m","i","n","i","o","-","s","e","r","v","i","c","e",".",
                  "k","u","b","e","f","l","o","w">>

\* a key that the options do not carry (accessKey/secretKey left undefined)
Undefined == "<undefined>"

Endpoints == {S3Global, S3China, S3GlobalMixed, MinioService}

Keys == {Undefined, "", "minio", "minio123"}

\* every ClientOptions value of the model
ClientOptions == [endPoint : Endpoints, accessKey : Keys, secretKey : Keys]

\* the options of the managers whose whole life is explored: what createClient
\* and the forwarder do does not read the options again
ManagedOptions ==
  {[endPoint |-> S3Global, accessKey |-> "", secretKey |-> ""],
   [endPoint |-> S3GlobalMixed, accessKey |-> Undefined, secretKey |-> "minio"],
   [endPoint |-> S3China, accessKey |-> "minio", secretKey |-> "minio"],
   [endPoint |-> MinioService, accessKey |-> "minio", secretKey |-> "minio123"]}

\* isAmazonEndpoint: exact comparison with the two known host names
isAmazonEndpoint(endpoint) == endpoint = S3Global \/ endpoint = S3China

\* destructuring default: `accessKey = ""` replaces undefined only
KeyOrDefault(k) == IF k = Undefined THEN "" ELSE k

\* String.prototype.length of a key of the model
KeyLength(k) == IF k = "" THEN 0 ELSE 1

(***************************************************************************)
(* Client handles.  A handle is an instance of minio's Client; `id` is the *)
(* identity of the instance: 0 for none, 1.. for the promise that carries  *)
(* it.                                                                     *)
(***************************************************************************)
NoHandle == [id |-> 0, endPoint |-> <<>>, accessKey |-> "", secretKey |-> "",
             sessionToken |-> ""]

\* new Client(opts)
NewClient(id, endPoint, accessKey, secretKey, sessionToken) ==
  [id |-> id, endPoint |-> endPoint, accessKey |-> accessKey,
   secretKey |-> secretKey, sessionToken |-> sessionToken]

(***************************************************************************)
(* Promises.  stage: "waitRole" (chained on iamRole, callback not yet run),*)
(* "waitCreds" (credentials request outstanding), "fulfilled", "rejected". *)
(* value: what a fulfilled promise carries: "handle", "false" or "empty"   *)
(* (the empty string).  role: the role name of the credentials request.    *)
(* credExp: the Expiration of the credentials the handle was built from.   *)
(* joined: the promises that were not settled when this one was created.   *)
(***************************************************************************)
NoExp == <<"none">>

PendingPromise ==
  [stage |-> "waitRole", value |-> "", cause |-> "", role |-> "",
   handle |-> NoHandle, credExp |-> NoExp, joined |-> {}]

\* Promise.resolve(new Client(this.options))
ResolvedPromise(h) ==
  [stage |-> "fulfilled", value |-> "handle", cause |-> "", role |-> "",
   handle |-> h, credExp |-> NoExp, joined |-> {}]

Settled(p) == p.stage \in {"fulfilled", "rejected"}

\* faulty variant: init falls back to the role only when both keys are empty
initBothKeysEmpty(opts) ==
  LET accessKey == KeyOrDefault(opts.accessKey)
      secretKey == KeyOrDefault(opts.secretKey)
      persistent ==
        [expiration |-> Num(-1), _client |-> 1,
         promises |-> <<ResolvedPromise(
            NewClient(1, opts.endPoint, opts.accessKey, opts.secretKey,
                      Undefined))>>]
      dynamic == [expiration |-> Num(0), _client |-> 0, promises |-> <<>>]
  IN  IF isAmazonEndpoint(toLowerCase(opts.endPoint))
      THEN IF KeyLength(accessKey) = 0 /\ KeyLength(secretKey) = 0
           THEN dynamic
           ELSE persistent
      ELSE persistent

\* MinioClientManager.init: the fields after construction
init(opts) ==
  LET accessKey == KeyOrDefault(opts.accessKey)
      secretKey == KeyOrDefault(opts.secretKey)
      persistent ==
        [expiration |-> Num(-1), _client |-> 1,
         promises |-> <<ResolvedPromise(
            NewClient(1, opts.endPoint, opts.accessKey, opts.secretKey,
                      Undefined))>>]
      dynamic == [expiration |-> Num(0), _client |-> 0, promises |-> <<>>]
  IN  IF isAmazonEndpoint(toLowerCase(opts.endPoint))
      THEN IF KeyLength(accessKey) = 0 \/ KeyLength(secretKey) = 0
           THEN dynamic
           ELSE persistent
      ELSE persistent

\* new MinioClientManager(opts): the state after the constructor
Constructed(opts) ==
  /\ options = opts
  /\ expiration = init(options).expiration
  /\ _client = init(options)._client
  /\ promises = init(options).promises
  /\ iamRole = [state |-> "unset", value |-> "", cause |-> ""]
  /\ ncalls = 0
  /\ ops = <<>>
  /\ now = 1
  /\ roleReqs = 0
  /\ credReqs = 0

Init == \E opts \in ManagedOptions : Constructed(opts)

\* a manager constructed from any ClientOptions value
InitAnyOptions == \E opts \in ClientOptions : Constructed(opts)

(***************************************************************************)
(* MinioClientManager.createClient and client.                             *)
(***************************************************************************)
\* faulty variant: the persistent test compares with the marker -1 instead of 0
IsPersistentBelowMarker(e) == Lt(e, Num(-1))

\* line 175: `this.expiration < 0`, the persistent client
IsPersistent(e) == Lt(e, Num(0))

\* faulty variant: the comparison with Date.now() is the wrong way round
CacheValidInverted(c, e, t) == c # 0 /\ Lt(e, t)

\* line 178: `!!this._client && this.expiration > Date.now()`
CacheValid(c, e, t) == c # 0 /\ Gt(e, t)

\* faulty variant: the role is listed again on every refresh
NeedRoleFetchAlways(r) == TRUE

\* lines 182-186: `this.iamRole || fetch(...)`: a promise is always truthy
NeedRoleFetch(r) == r.state = "unset"

\* the promises that are not settled
Unsettled == {p \in 1..Len(promises) : ~Settled(promises[p])}

\* createClient: the promise it returns and the fields it assigns
createClient ==
  LET hit == IsPersistent(expiration) \/ CacheValid(_client, expiration, Num(now))
      fetchRole == ~hit /\ NeedRoleFetch(iamRole)
  IN  [ret |-> IF hit THEN _client ELSE Len(promises) + 1,
       refreshed |-> ~hit,
       roleReq |-> fetchRole,
       iamRole |-> IF fetchRole
                   THEN [state |-> "pending", value |-> "", cause |-> ""]
                   ELSE iamRole,
       promises |-> IF hit THEN promises
                    ELSE Append(promises,
                                [PendingPromise EXCEPT !.joined = Unsettled])]

\* the forwarded operations: "method" and "value" are a method call and a
\* property read on the proxy of getMinioClientProxy, "getObject" is
\* manager.getObject
OpKinds == {"method", "value", "getObject"}

\* whether the promise c carries a handle
HoldsHandle(c) ==
  c # 0 /\ promises[c].stage = "fulfilled" /\ promises[c].value = "handle"

\* client(): `this._client = this.createClient(); return this._client`
client ==
  LET r == createClient
  IN  /\ ncalls < MaxCalls
      /\ ncalls' = ncalls + 1
      /\ _client' = r.ret
      /\ iamRole' = r.iamRole
      /\ promises' = r.promises
      /\ roleReqs' = IF r.roleReq THEN roleReqs + 1 ELSE roleReqs
      /\ UNCHANGED <<options, expiration, now, credReqs>>

\* a caller of the manager calls client() and keeps the promise
DirectCall ==
  /\ client
  /\ UNCHANGED ops

\* a forwarded operation starts: it calls client() and chains its callback
\* on the promise
ForwardedCall(kind) ==
  /\ Len(ops) < MaxForwarded
  /\ client
  /\ ops' = Append(ops,
       [kind |-> kind, pid |-> _client', result |-> "pending", value |-> "",
        cause |-> "", invoked |-> FALSE])

(***************************************************************************)
(* The metadata service.                                                   *)
(***************************************************************************)
\* JavaScript's false as the value of a promise
FalseValue == "<false>"

RoleNames == {"worker-role"}

\* answers to the role-listing request: no answer within 500 ms, a non-2xx
\* status, or 2xx with the role name (possibly empty) as text
RoleResponses ==
  {[status |-> "timeout", text |-> ""], [status |-> "notok", text |-> ""]}
    \cup [status : {"ok"}, text : RoleNames \cup {""}]

\* line 186: `resp => resp.ok && resp.text()`
RoleOf(resp) == IF resp.status = "ok" THEN resp.text ELSE FalseValue

\* the role-listing fetch settles: the promise iamRole is rejected on a
\* timeout and fulfilled with RoleOf otherwise
RoleListingResponse ==
  /\ iamRole.state = "pending"
  /\ \E resp \in RoleResponses :
       iamRole' = IF resp.status = "timeout"
                  THEN [state |-> "rejected", value |-> "",
                        cause |-> "FetchError: network timeout"]
                  ELSE [state |-> "fulfilled", value |-> RoleOf(resp),
                        cause |-> ""]
  /\ UNCHANGED <<options, expiration, _client, promises, ncalls, ops, now,
                 roleReqs, credReqs>>

\* faulty variant: only false counts as no role, the empty string passes
TruthyUnlessFalse(v) == v # FalseValue

\* JavaScript truthiness of the value of iamRole
Truthy(v) == v # FalseValue /\ v # ""

\* the value tag of a promise fulfilled with a falsy role
FalsyTag(v) == IF v = FalseValue THEN "false" ELSE "empty"

\* getClientFromEc2MetaData, synchronous part: throws without a role,
\* otherwise issues the credentials request for the role
getClientFromEc2MetaData(p, role) ==
  IF ~Truthy(role)
  THEN [p EXCEPT !.stage = "rejected",
                 !.cause = "Unable to find IAM role for EC2 instance."]
  ELSE [p EXCEPT !.stage = "waitCreds", !.role = role]

\* line 189: `iamRole => iamRole && this.getClientFromEc2MetaData(iamRole)`
ThenCallback(p, role) ==
  IF ~Truthy(role)
  THEN [p EXCEPT !.stage = "fulfilled", !.value = FalsyTag(role)]
  ELSE getClientFromEc2MetaData(p, role)

\* the promise `this.iamRole.then(...)` of line 189 reacts to iamRole: it is
\* rejected with iamRole's cause, or runs the callback
ThenIamRole(p) ==
  /\ promises[p].stage = "waitRole"
  /\ iamRole.state \in {"fulfilled", "rejected"}
  /\ LET q == IF iamRole.state = "rejected"
              THEN [promises[p] EXCEPT !.stage = "rejected",
                                       !.cause = iamRole.cause]
              ELSE ThenCallback(promises[p], iamRole.value)
     IN  /\ promises' = [promises EXCEPT ![p] = q]
         /\ credReqs' = IF q.stage = "waitCreds" THEN credReqs + 1
                        ELSE credReqs
  /\ UNCHANGED <<options, expiration, _client, iamRole, ncalls, ops, now,
                 roleReqs>>

\* the Expiration strings of the model: an ISO-8601 string for the instant t
\* (before the epoch when t < 0), or a string that is no date
ExpirationStrings == {<<"iso", -2>>, <<"iso", 2>>, <<"iso", 3>>, <<"bad">>}

\* line 154: `new Date(Expiration).getTime()`
DateGetTime(s) == IF s[1] = "iso" THEN Num(s[2]) ELSE NaN

\* MetaDataResult: the JSON bodies the credentials path answers with
MetaDataResults ==
  {[AccessKeyId |-> "AK1", SecretAccessKey |-> "SK1", Token |-> "TK1",
    Expiration |-> <<"iso", 2>>],
   [AccessKeyId |-> "AK2", SecretAccessKey |-> "SK2", Token |-> "TK2",
    Expiration |-> <<"iso", 3>>],
   [AccessKeyId |-> "AK1", SecretAccessKey |-> "SK1", Token |-> "TK1",
    Expiration |-> <<"iso", -2>>],
   [AccessKeyId |-> "AK1", SecretAccessKey |-> "SK1", Token |-> "TK1",
    Expiration |-> <<"bad">>]}

\* toClient: the expiration it assigns
toClientExpiration(m) == DateGetTime(m.Expiration)

\* faulty variant: the Client is made for the configured endpoint
toClientConfiguredEndpoint(id, m) ==
  NewClient(id, options.endPoint, m.AccessKeyId, m.SecretAccessKey, m.Token)

\* toClient: the Client it returns
toClient(id, m) ==
  NewClient(id, S3Global, m.AccessKeyId, m.SecretAccessKey, m.Token)

\* the credentials fetch of promise p fails (no connection) or answers with a
\* body that is not JSON: fetch or resp.json() rejects, toClient does not run
CredentialsFailure(p) ==
  /\ promises[p].stage = "waitCreds"
  /\ \E cause \in {"FetchError: request failed", "SyntaxError: invalid json"} :
       promises' = [promises EXCEPT ![p].stage = "rejected",
                                    ![p].cause = cause]
  /\ UNCHANGED <<options, expiration, _client, iamRole, ncalls, ops, now,
                 roleReqs, credReqs>>

\* the credentials fetch of promise p answers with a JSON body: toClient
\* assigns the expiration and the promise is fulfilled with the new Client
CredentialsResponse(p) ==
  /\ promises[p].stage = "waitCreds"
  /\ \E m \in MetaDataResults :
       /\ expiration' = toClientExpiration(m)
       /\ promises' = [promises EXCEPT ![p].stage = "fulfilled",
                                       ![p].value = "handle",
                                       ![p].handle = toClient(p, m),
                                       ![p].credExp = m.Expiration]
  /\ UNCHANGED <<options, _client, iamRole, ncalls, ops, now, roleReqs,
                 credReqs>>

(***************************************************************************)
(* The operations on the promise client() returned.                        *)
(***************************************************************************)
\* faulty variant: the forwarder catches the failure and answers undefined
ProxyMethodSwallows(p) ==
  IF p.stage = "fulfilled" /\ p.value = "handle"
  THEN [result |-> "fulfilled", value |-> "result", cause |-> "",
        invoked |-> TRUE]
  ELSE [result |-> "fulfilled", value |-> "undefined", cause |-> "",
        invoked |-> FALSE]

\* line 233: `manager.client().then(client => client[sKey].apply(client, args))`
ProxyMethod(p) ==
  IF p.stage = "rejected"
  THEN [result |-> "rejected", value |-> "", cause |-> p.cause,
        invoked |-> FALSE]
  ELSE IF p.value = "handle"
  THEN [result |-> "fulfilled", value |-> "result", cause |-> "",
        invoked |-> TRUE]
  ELSE [result |-> "rejected", value |-> "",
        cause |-> "TypeError: Cannot read property 'apply' of undefined",
        invoked |-> FALSE]

\* line 234: `manager.client().then(client => client[sKey])`
ProxyValue(p) ==
  IF p.stage = "rejected"
  THEN [result |-> "rejected", value |-> "", cause |-> p.cause,
        invoked |-> FALSE]
  ELSE IF p.value = "handle"
  THEN [result |-> "fulfilled", value |-> "property", cause |-> "",
        invoked |-> FALSE]
  ELSE [result |-> "fulfilled", value |-> "undefined", cause |-> "",
        invoked |-> FALSE]

\* lines 200-204: `client => client && client.getObject(bucket, key, cb)`
getObject(p) ==
  IF p.stage = "rejected"
  THEN [result |-> "rejected", value |-> "", cause |-> p.cause,
        invoked |-> FALSE]
  ELSE IF p.value = "handle"
  THEN [result |-> "fulfilled", value |-> "result", cause |-> "",
        invoked |-> TRUE]
  ELSE [result |-> "fulfilled", value |-> p.value, cause |-> "",
        invoked |-> FALSE]

Outcome(kind, p) ==
  CASE kind = "method" -> ProxyMethod(p)
    [] kind = "value" -> ProxyValue(p)
    [] kind = "getObject" -> getObject(p)

\* the promise of operation i has settled and the operation's callback runs
OpCompletes(i) ==
  /\ ops[i].result = "pending"
  /\ Settled(promises[ops[i].pid])
  /\ LET o == Outcome(ops[i].kind, promises[ops[i].pid])
     IN  ops' = [ops EXCEPT ![i].result = o.result, ![i].value = o.value,
                            ![i].cause = o.cause, ![i].invoked = o.invoked]
  /\ UNCHANGED <<options, expiration, _client, iamRole, promises, ncalls, now,
                 roleReqs, credReqs>>

\* Date.now() advances
Tick ==
  /\ now < MaxNow
  /\ now' = now + 1
  /\ UNCHANGED <<options, expiration, _client, iamRole, promises, ncalls, ops,
                 roleReqs, credReqs>>

Next ==
  \/ Tick
  \/ DirectCall
  \/ \E kind \in OpKinds : ForwardedCall(kind)
  \/ RoleListingResponse
  \/ \E p \in 1..Len(promises) : ThenIamRole(p)
  \/ \E p \in 1..Len(promises) : CredentialsFailure(p)
  \/ \E p \in 1..Len(promises) : CredentialsResponse(p)
  \/ \E i \in 1..Len(ops) : OpCompletes(i)

Spec == Init /\ [][Next]_vars

\* a manager constructed from any options and called while the metadata
\* service has not answered
NextUnanswered ==
  \/ Tick
  \/ DirectCall
  \/ \E kind \in OpKinds : ForwardedCall(kind)
  \/ \E i \in 1..Len(ops) : OpCompletes(i)

SpecInit == InitAnyOptions /\ [][NextUnanswered]_vars

(***************************************************************************)
(* The claims.                                                             *)
(***************************************************************************)
\* the manager was constructed for the instance role: a recognized endpoint
\* (in any spelling of its letters) and a key that is empty or missing
DynamicMode ==
  /\ isAmazonEndpoint(toLowerCase(options.endPoint))
  /\ \/ options.accessKey \in {Undefined, ""}
     \/ options.secretKey \in {Undefined, ""}

Pids == 1..Len(promises)

\* the credentials requests that are outstanding
OutstandingCreds == {p \in Pids : promises[p].stage = "waitCreds"}

\* the calls that arrived before the call of promise p completed, p included,
\* and that have issued a credentials request
GroupCredReqs(p) ==
  {q \in Pids : (q = p \/ p \in promises[q].joined) /\ promises[q].role # ""}

\* C1: in Dynamic mode the calls that arrive before the first of them has
\* completed issue one role-listing request and one credentials request in
\* total, and at no time is more than one credentials request outstanding.
C1_SingleFlight ==
  DynamicMode =>
    /\ roleReqs <= 1
    /\ Cardinality(OutstandingCreds) <= 1
    /\ \A p \in Pids : Cardinality(GroupCredReqs(p)) <= 1

\* the outcome of a settled promise: failure, or the value it carries (for a
\* handle, the instance)
OutcomeOf(p) ==
  IF promises[p].stage = "rejected" THEN <<"fails">>
  ELSE <<promises[p].value, promises[p].handle.id>>

\* C2: in Dynamic mode a call that arrives while a refresh is in flight
\* resolves to the same outcome as the call that started the refresh: the
\* same handle instance for both, or failure for both.
C2_SameOutcome ==
  DynamicMode =>
    \A q \in Pids : \A p \in promises[q].joined :
      (Settled(promises[p]) /\ Settled(promises[q]))
        => OutcomeOf(p) = OutcomeOf(q)

\* a step that is a call of client()
IsCall == ncalls' = ncalls + 1

\* the call of this step returns the cached promise and touches nothing
ReturnsCached ==
  /\ _client' = _client
  /\ promises' = promises
  /\ iamRole' = iamRole
  /\ roleReqs' = roleReqs
  /\ credReqs' = credReqs

\* the call of this step starts a refresh: a new promise, which it returns
StartsRefresh ==
  /\ Len(promises') = Len(promises) + 1
  /\ promises'[Len(promises')].stage = "waitRole"
  /\ _client' = Len(promises')

\* C3: in Dynamic mode a call made when a handle is cached returns the cached
\* handle without any request if the Expiration is strictly after the current
\* time, and starts one refresh if the Expiration is before or at the current
\* time.
C3_CacheDecision ==
  [][(IsCall /\ DynamicMode /\ HoldsHandle(_client)) =>
       /\ (~expiration.nan /\ expiration.n > now) => ReturnsCached
       /\ (~expiration.nan /\ expiration.n <= now) => StartsRefresh]_vars

\* C4: in Persistent mode the Expiration stays -1, the cached promise stays
\* the one made at construction, fulfilled with the handle made from the
\* options, no request is issued and no operation fails.
C4_PersistentStable ==
  ~DynamicMode =>
    /\ expiration = Num(-1)
    /\ _client = 1
    /\ Len(promises) = 1
    /\ promises[1].stage = "fulfilled"
    /\ promises[1].handle =
         NewClient(1, options.endPoint, options.accessKey, options.secretKey,
                   Undefined)
    /\ roleReqs = 0
    /\ credReqs = 0
    /\ \A i \in 1..Len(ops) : ops[i].pid = 1 /\ ops[i].result # "rejected"

\* C4 witness: a persistent manager called twice, later than it was made,
\* with a forwarded method that has run on the handle
C4_Witness ==
  /\ ~DynamicMode
  /\ ncalls = 2
  /\ now > 1
  /\ \E i \in 1..Len(ops) : ops[i].invoked

\* the state right after construction is dynamic: no Expiration, no promise
StartsDynamic == expiration = Num(0) /\ _client = 0 /\ promises = <<>>

\* the state right after construction is persistent, with the handle made
StartsPersistent ==
  /\ expiration = Num(-1)
  /\ HoldsHandle(_client)
  /\ promises[_client].handle.endPoint = options.endPoint
  /\ promises[_client].handle.accessKey = options.accessKey
  /\ promises[_client].handle.secretKey = options.secretKey

\* an empty or missing key
NoKey(k) == k = "" \/ k = Undefined

RoleListingFailed ==
  \/ iamRole.state = "rejected"
  \/ iamRole.state = "fulfilled" /\ iamRole.value = FalseValue

\* C6: in Dynamic mode, when the role-listing request timed out or was
\* answered without success, no call of client() is fulfilled: every promise
\* that settles is rejected.
C6_RoleFailureSignalled ==
  (DynamicMode /\ RoleListingFailed) =>
    \A p \in Pids : promises[p].stage # "fulfilled"

\* C7: in Dynamic mode, a call made after the role-listing request failed
\* issues a new role-listing request.
C7_RoleListingRetried ==
  [][(IsCall /\ DynamicMode /\ RoleListingFailed)
       => roleReqs' = roleReqs + 1]_vars

\* the role name is resolved
RoleResolved == iamRole.state = "fulfilled" /\ iamRole.value \in RoleNames

\* the credentials request of the promise failed or was answered with data
\* that is no credentials: no JSON, or an Expiration that is no date
CredentialsFailed(q) ==
  \/ q.stage = "rejected" /\ q.role # ""
  \/ q.credExp = <<"bad">>

\* C8: when the credentials request of a refresh fails or is answered with
\* malformed data, the promise is rejected, the role and the Expiration stay
\* as they were, and a call made next starts a refresh that lists no role.
C8_CredentialsFailure ==
  [][/\ \A p \in Pids :
          (promises[p].stage = "waitCreds" /\ CredentialsFailed(promises'[p]))
            => /\ promises'[p].stage = "rejected"
               /\ iamRole' = iamRole
               /\ expiration' = expiration
     /\ (IsCall /\ DynamicMode /\ _client # 0
           /\ CredentialsFailed(promises[_client]))
          => StartsRefresh /\ roleReqs' = roleReqs /\ iamRole' = iamRole]_vars

\* the promises whose credentials request is issued by this step
IssuesCredentials ==
  {p \in 1..Len(promises') :
     /\ promises'[p].stage = "waitCreds"
     /\ (p > Len(promises) \/ promises[p].stage # "waitCreds")}

\* C9: once the role name is resolved, no step issues a role-listing request
\* or changes the role, and every credentials request is for that role.
C9_RoleFetchedOnce ==
  [][RoleResolved =>
       /\ roleReqs' = roleReqs
       /\ iamRole' = iamRole
       /\ \A p \in IssuesCredentials : promises'[p].role = iamRole.value]_vars

\* C9 witness: the role was listed once, a credentials request failed and a
\* second credentials request was issued by a later refresh
C9_Witness ==
  /\ RoleResolved
  /\ roleReqs = 1
  /\ credReqs = 2
  /\ \E p \in Pids : promises[p].stage = "rejected"
  /\ \E p \in Pids : promises[p].stage = "waitCreds" /\ promises[p].joined = {}

\* C10: when the promise of a forwarded method call is rejected, the call is
\* rejected with the same cause, the method of the storage client is not
\* invoked, and the forwarder calls client() no second time.
C10_MethodFailure ==
  [][\A i \in 1..Len(ops) :
       (/\ ops[i].kind = "method"
        /\ ops[i].result = "pending"
        /\ ops'[i].result # "pending"
        /\ promises[ops[i].pid].stage = "rejected")
         => /\ ops'[i].result = "rejected"
            /\ ops'[i].cause = promises[ops[i].pid].cause
            /\ ~ops'[i].invoked
            /\ ops'[i].pid = ops[i].pid
            /\ ncalls' = ncalls
            /\ promises' = promises]_vars

\* C10 witness: a forwarded method call has failed with the cause of the
\* refresh that failed
C10_Witness ==
  \E i \in 1..Len(ops) :
    /\ ops[i].kind = "method"
    /\ ops[i].result = "rejected"
    /\ promises[ops[i].pid].stage = "rejected"
    /\ ops[i].cause = promises[ops[i].pid].cause

\* the operations that have run their callback
Done == {i \in 1..Len(ops) : ops[i].result # "pending"}

\* C11: a forwarded operation (method call, property read, getObject) whose
\* call of client() produced no handle ends in a failure, never in a
\* fulfilled result.
C11_NoSilentEmptyResult ==
  \A i \in Done : ~HoldsHandle(ops[i].pid) => ops[i].result = "rejected"

\* a step that starts a forwarded operation
IsForwardedCall == Len(ops') = Len(ops) + 1

\* the cached Expiration is a time that has passed
ExpirationPassed == ~expiration.nan /\ expiration.n <= now

\* C12: a forwarded operation calls client() once, when it starts, and runs on
\* the promise that call returned; an operation started in Dynamic mode after
\* the cached Expiration has passed starts a refresh and runs on its promise,
\* not on the cached handle.
C12_ForwarderNeverCaches ==
  [][/\ IsForwardedCall => (IsCall /\ ops'[Len(ops')].pid = _client')
     /\ (~IsForwardedCall /\ ops' # ops) => ncalls' = ncalls
     /\ (IsForwardedCall /\ DynamicMode /\ HoldsHandle(_client)
           /\ ExpirationPassed)
          => (StartsRefresh /\ ops'[Len(ops')].pid # _client)]_vars

\* C13: in Dynamic mode, whenever the cached Expiration is strictly after the
\* current time, the cached promise (what client() returns then) is settled:
\* the caller waits for no request of the metadata service.
C13_CacheHitNeverBlocks ==
  (DynamicMode /\ _client # 0 /\ ~expiration.nan /\ expiration.n > now)
    => Settled(promises[_client])

\* the refresh of promise c has failed: it is settled without a handle
RefreshFailed(c) == c # 0 /\ Settled(promises[c]) /\ ~HoldsHandle(c)

\* C14: in Dynamic mode a call made when the latest refresh has failed starts
\* a new refresh that goes to the metadata service: it lists the role, unless
\* the role is resolved and the refresh asks for credentials.
C14_RetryAfterFailure ==
  [][(IsCall /\ DynamicMode /\ RefreshFailed(_client))
       => (StartsRefresh /\ (RoleResolved \/ roleReqs' = roleReqs + 1))]_vars

\* the refreshes that have issued their credentials request
AskedCredentials == {p \in Pids : promises[p].role # ""}

\* C15: in Dynamic mode every refresh issues at most one role-listing request
\* and at most one credentials request, a credentials request is issued only
\* when the role listing has answered with a non-empty role name, and the
\* first call of client() issues one role-listing request and, once a role is
\* found, one credentials request.
C15_RequestBound ==
  DynamicMode =>
    /\ roleReqs <= Len(promises)
    /\ credReqs = Cardinality(AskedCredentials)
    /\ (credReqs > 0 \/ OutstandingCreds # {}) => RoleResolved
    /\ ncalls >= 1 => roleReqs >= 1
    /\ ncalls = 1 =>
         /\ roleReqs = 1
         /\ credReqs <= 1
         /\ (RoleResolved /\ promises[1].stage # "waitRole") => credReqs = 1

\* C15 witness: the first call of a Dynamic manager has listed the role, asked
\* for the credentials once and got its handle
C15_Witness ==
  /\ DynamicMode
  /\ ncalls = 1
  /\ RoleResolved
  /\ HoldsHandle(1)
  /\ roleReqs = 1
  /\ credReqs = 1

\* the promises that this step fulfils with a handle made from credentials
GetsCredentials ==
  {p \in Pids : promises[p].stage = "waitCreds"
                  /\ promises'[p].stage = "fulfilled"}

\* C16: when the credentials request of a refresh is answered with
\* credentials, the promise is fulfilled with a handle bound to the access
\* key, secret key and session token of that answer and to the endpoint
\* "s3.amazonaws.com", whatever the configured endpoint, and the Expiration
\* becomes the parsed Expiration of that answer.
C16_SuccessfulRefresh ==
  [][\A p \in GetsCredentials :
       \E m \in MetaDataResults :
         /\ promises'[p].value = "handle"
         /\ promises'[p].handle.endPoint = S3Global
         /\ promises'[p].handle.accessKey = m.AccessKeyId
         /\ promises'[p].handle.secretKey = m.SecretAccessKey
         /\ promises'[p].handle.sessionToken = m.Token
         /\ promises'[p].credExp = m.Expiration
         /\ expiration' = DateGetTime(m.Expiration)
         /\ promises'[p].role = iamRole.value]_vars

\* C16 witness: a manager configured for the endpoint in another spelling
\* holds a handle for "s3.amazonaws.com" with the keys AK2, SK2, TK2 and the
\* Expiration of those credentials
C16_Witness ==
  /\ options.endPoint = S3GlobalMixed
  /\ HoldsHandle(_client)
  /\ promises[_client].handle.endPoint = S3Global
  /\ promises[_client].handle.accessKey = "AK2"
  /\ promises[_client].handle.secretKey = "SK2"
  /\ promises[_client].handle.sessionToken = "TK2"
  /\ expiration = Num(3)
  /\ ncalls = 1

\* a refresh has produced a handle
HandleProduced == \E p \in Pids : HoldsHandle(p)

\* C17: the Expiration of a manager made in Dynamic mode never is negative
\* (the marker of Persistent mode), and it is a timestamp, not NaN, once a
\* handle has been produced.
C17_ModeNeverChanges ==
  DynamicMode =>
    /\ ~(~expiration.nan /\ expiration.n < 0)
    /\ HandleProduced => ~expiration.nan

\* the cached promise, the Expiration and the role stay as they are
CacheUnchanged ==
  /\ _client' = _client
  /\ expiration' = expiration
  /\ iamRole' = iamRole
  /\ promises' = promises

\* the call of this step finds a valid cache: Persistent mode, or a cached
\* promise with an Expiration strictly after the current time
CacheHit ==
  \/ ~DynamicMode
  \/ _client # 0 /\ ~expiration.nan /\ expiration.n > now

\* C18: a call of client() that finds a valid cache leaves the cached promise,
\* the Expiration and the role unchanged, and so does every step that is no
\* part of a refresh (the clock, the callback of a forwarded operation).
C18_CacheHitFrame ==
  [][/\ (IsCall /\ CacheHit) => CacheUnchanged
     /\ (now' # now \/ (ops' # ops /\ ~IsCall)) => CacheUnchanged]_vars

\* C18 witness: the second call of a Dynamic manager found the handle of the
\* first call cached with an Expiration in the future and made no new promise
C18_Witness ==
  /\ DynamicMode
  /\ ncalls = 2
  /\ Len(promises) = 1
  /\ HoldsHandle(_client)
  /\ ~expiration.nan
  /\ expiration.n > now

\* C19: in Dynamic mode, when no refresh is in flight and the cached promise
\* carries a handle, the Expiration is the parsed Expiration of the
\* credentials that handle was made from.
C19_ExpirationOfCachedHandle ==
  (DynamicMode /\ Unsettled = {} /\ HoldsHandle(_client))
    => expiration = DateGetTime(promises[_client].credExp)
====
